---- MODULE Spec2Model ----
(***************************************************************************)
(* Model of pipeline/models/training.py: train (Epoch Trainer), validate   *)
(* (Epoch Validator) and the epoch loop of train_loop (Run Controller).    *)
(*                                                                         *)
(* Model parameters are abstracted to a version number: the number of      *)
(* optimizer updates applied so far.  Losses are abstracted to the values  *)
(* 1..MaxLoss and Inf (float("inf")); NaN is outside the model.  The       *)
(* learning rate is the cosine-annealing value in thousandths of the base  *)
(* learning rate, with eta_min = 0.                                        *)
(***************************************************************************)
EXTENDS Integers, Sequences, FiniteSets

\* Largest epoch budget hyperparameters.train.epochs that is explored.
MaxEpochs == 4
\* Largest patience argument that is explored.
MaxPatience == 2
\* Largest finite loss value.
MaxLoss == 3
\* Largest number of batches the training loader yields.
MaxBatches == 2
\* Largest number of batches the validation loader yields.
MaxValBatches == 1
\* Largest number of batches whose losses are averaged in MeanSpec.
MaxMeanBatches == 3
\* Bits of the significand of the model's floats (53 in a Python float).
Precision == 3
\* Largest number of rows of df in PartitionSpec.
MaxRows == 2

\* float("inf"): above every finite loss.
Inf == MaxLoss + 1
LossValues == 1..Inf
\* The patience argument is an unconstrained int.
PatienceValues == (-1)..MaxPatience
\* No file at model_path; a file holding parameters p is <<p>>.
NoFile == <<>>
\* No value returned (yet); a returned value v is <<v>>.
NoValue == <<>>

VARIABLES
    num_epochs,        \* hyperparameters.train.epochs
    patience,          \* argument patience
    log_wandb,         \* argument log_wandb
    n_train,           \* len(train_loader)
    n_val,             \* len(val_loader)
    pc,                \* position in the code
    epoch,             \* loop variable of train_loop
    batch,             \* batches consumed from the loader being iterated
    training,          \* model.training, set by model.train() / model.eval()
    params,            \* model parameters: number of optimizer updates applied
    grads,             \* .grad of the parameters: batches accumulated, clipped or not
    last_update,       \* the gradients the latest optimizer.step() applied
    last_epoch,        \* scheduler.last_epoch
    opt_lr,            \* optimizer.param_groups[0]["lr"]
    best_val_loss,
    patience_counter,
    val_loss,
    lr,                \* local lr of train_loop
    model_pth,         \* parameters stored in model.pth, or NoFile
    returned,          \* value returned by train_loop, or NoValue
    outcome,           \* "RUNNING", "EARLY_STOP", "BUDGET_EXHAUSTED" or "FAILED"
    val_hist,          \* history: val_loss of every validated epoch
    val_params,        \* history: params at the validation of every epoch
    saved_at,          \* history: epochs (1-based) whose body called torch.save
    wandb_log,         \* history: records passed to wandb.log
    printed,           \* history: learning rates printed, one per epoch
    ops,               \* history: operations of train on the current batch
    steps,             \* history: steps of the current epoch
    fn,                \* MeanSpec: "train" or "validate", the function running
    losses,            \* MeanSpec: loss.item() of the batches, in visiting order
    visited,           \* MeanSpec: batches consumed from the loader
    total_loss,        \* MeanSpec: local total_loss
    mean_ret,          \* MeanSpec: value returned by train / validate, or NoValue
    mean_pc,           \* MeanSpec: position in train / validate
    df,                \* PartitionSpec: rows of df, each with its three flags
    merge_train_val,   \* PartitionSpec: argument merge_train_val
    train_df,          \* PartitionSpec: local train_df
    val_df,            \* PartitionSpec: local val_df
    part_pc            \* PartitionSpec: position in lines 102-107

vars == <<num_epochs, patience, log_wandb, n_train, n_val, pc, epoch, batch,
          training, params, grads, last_update, last_epoch, opt_lr,
          best_val_loss, patience_counter, val_loss, lr, model_pth, returned,
          outcome, val_hist, val_params, saved_at, wandb_log, printed, ops,
          steps, fn, losses, visited, total_loss, mean_ret, mean_pc, df,
          merge_train_val, train_df, val_df, part_pc>>

config == <<num_epochs, patience, log_wandb, n_train, n_val>>
mean_vars == <<fn, losses, visited, total_loss, mean_ret, mean_pc>>
part_vars == <<df, merge_train_val, train_df, val_df, part_pc>>
\* What the epoch loop neither reads nor writes.
apart == <<mean_vars, part_vars>>
loop_vars == <<num_epochs, patience, log_wandb, n_train, n_val, pc, epoch,
               batch, training, params, grads, last_update, last_epoch, opt_lr,
               best_val_loss, patience_counter, val_loss, lr, model_pth,
               returned, outcome, val_hist, val_params, saved_at, wandb_log,
               printed, ops, steps>>
history == <<val_hist, val_params, saved_at, wandb_log, printed>>
run_state == <<best_val_loss, patience_counter, val_loss, lr>>
optim == <<params, grads, last_update>>
sched == <<last_epoch, opt_lr>>

NoGrads == [from |-> {}, clipped |-> FALSE]

\* 500 * (1 + cos(pi * t / T)), rounded, for T = 1..6 and t = 0..T.
CosTable ==
    << <<1000, 0>>,
       <<1000, 500, 0>>,
       <<1000, 750, 250, 0>>,
       <<1000, 854, 500, 146, 0>>,
       <<1000, 905, 655, 345, 95, 0>>,
       <<1000, 933, 750, 500, 250, 67, 0>> >>

\* CosineAnnealingLR(T_max = T, eta_min = 0): the learning rate after t steps.
CosineLr(T, t) ==
    IF T \in 1..Len(CosTable) /\ t \in 0..T THEN CosTable[T][t + 1] ELSE 1000

\* The minimum of float("inf") and h[1], ..., h[n].
BestOf(h, n) ==
    LET S == {h[i] : i \in 1..n} \cup {Inf}
    IN CHOOSE m \in S : \A x \in S : m <= x

\* Epoch i (1-based) of history h is strictly below everything before it.
Improved(h, i) == h[i] < BestOf(h, i - 1)

\* The number of epochs, up to epoch n, since the last one that improved.
RECURSIVE SinceImproved(_, _)
SinceImproved(h, n) ==
    IF n = 0 THEN 0
    ELSE IF Improved(h, n) THEN 0 ELSE SinceImproved(h, n - 1) + 1

\* Epoch n ends p consecutive epochs without improvement.
Streak(h, n, p) ==
    /\ n >= 1
    /\ n >= p
    /\ \A i \in (n - p + 1)..n : ~Improved(h, i)

IsPrefix(s, t) == Len(s) <= Len(t) /\ \A i \in 1..Len(s) : s[i] = t[i]

\* The epochs whose val_loss has been compared with best_val_loss.
Compared ==
    IF pc \in {"read_lr", "compare"} THEN Len(val_hist) - 1 ELSE Len(val_hist)

TrainPcs == {"zero_grad", "forward", "loss", "backward", "clip", "opt_step"}
ValPcs == {"val_forward", "val_ret"}
BodyPcs == {"read_lr", "compare", "check_patience", "log"}

\* The state at line 133, before the epoch loop.
LoopInit ==
    /\ num_epochs \in 0..MaxEpochs
    /\ patience \in PatienceValues
    /\ log_wandb \in BOOLEAN
    /\ n_train \in 0..MaxBatches
    /\ n_val \in 0..MaxValBatches
    /\ pc = "loop"
    /\ epoch = 0
    /\ batch = 0
    /\ training = TRUE
    /\ params = 0
    /\ grads = NoGrads
    /\ last_update = NoGrads
    /\ last_epoch = 0
    /\ opt_lr = CosineLr(num_epochs, 0)
    /\ best_val_loss = Inf
    /\ patience_counter = 0
    /\ val_loss = Inf
    /\ lr = 0
    /\ model_pth = NoFile
    /\ returned = NoValue
    /\ outcome = "RUNNING"
    /\ val_hist = <<>>
    /\ val_params = <<>>
    /\ saved_at = {}
    /\ wandb_log = <<>>
    /\ printed = <<>>
    /\ ops = <<>>
    /\ steps = <<>>

\* A float: mant * 2^exp, with mant odd or the float zero.
Zero == [mant |-> 0, exp |-> 0]

\* train and validate are not running.
MeanIdle ==
    /\ fn = "train"
    /\ losses = <<>>
    /\ visited = 0
    /\ total_loss = Zero
    /\ mean_ret = NoValue
    /\ mean_pc = "idle"

\* Lines 102-107 are not running.
PartIdle ==
    /\ df = <<>>
    /\ merge_train_val = FALSE
    /\ train_df = <<>>
    /\ val_df = <<>>
    /\ part_pc = "idle"

Init == LoopInit /\ MeanIdle /\ PartIdle

\* Variant: the loop runs for epoch = 0..num_epochs, one epoch too many.
LoopHeadOneMore ==
    /\ pc = "loop"
    /\ IF epoch <= num_epochs
       THEN /\ training' = TRUE
            /\ batch' = 0
            /\ steps' = <<"train">>
            /\ ops' = <<>>
            /\ pc' = IF n_train > 0 THEN "zero_grad" ELSE "sched_step"
            /\ UNCHANGED <<returned, outcome>>
       ELSE /\ pc' = "done"
            /\ returned' = <<best_val_loss>>
            /\ outcome' = "BUDGET_EXHAUSTED"
            /\ UNCHANGED <<training, batch, steps, ops>>
    /\ UNCHANGED <<apart, config, epoch, optim, sched, run_state, model_pth, history>>

\* for epoch in range(num_epochs): enter train(), or leave the loop and return.
LoopHead ==
    /\ pc = "loop"
    /\ IF epoch < num_epochs
       THEN /\ training' = TRUE
            /\ batch' = 0
            /\ steps' = <<"train">>
            /\ ops' = <<>>
            /\ pc' = IF n_train > 0 THEN "zero_grad" ELSE "sched_step"
            /\ UNCHANGED <<returned, outcome>>
       ELSE /\ pc' = "done"
            /\ returned' = <<best_val_loss>>
            /\ outcome' = "BUDGET_EXHAUSTED"
            /\ UNCHANGED <<training, batch, steps, ops>>
    /\ UNCHANGED <<apart, config, epoch, optim, sched, run_state, model_pth, history>>

-----------------------------------------------------------------------------
(* train(): lines 19-41 *)

\* Variant: optimizer.zero_grad() left out, so .grad accumulates over batches.
ZeroGradMissing ==
    /\ pc = "zero_grad"
    /\ ops' = <<"zero_grad">>
    /\ pc' = "forward"
    /\ UNCHANGED <<apart, config, epoch, batch, training, optim, sched, run_state,
                   model_pth, returned, outcome, history, steps>>

\* optimizer.zero_grad()
ZeroGrad ==
    /\ pc = "zero_grad"
    /\ grads' = NoGrads
    /\ ops' = <<"zero_grad">>
    /\ pc' = "forward"
    /\ UNCHANGED <<apart, config, epoch, batch, training, params, last_update, sched,
                   run_state, model_pth, returned, outcome, history, steps>>

\* outputs = model((past, forecast))
Forward ==
    /\ pc = "forward"
    /\ ops' = Append(ops, "forward")
    /\ pc' = "loss"
    /\ UNCHANGED <<apart, config, epoch, batch, training, optim, sched, run_state,
                   model_pth, returned, outcome, history, steps>>

\* loss = criterion(outputs, targets)
Loss ==
    /\ pc = "loss"
    /\ ops' = Append(ops, "loss")
    /\ pc' = "backward"
    /\ UNCHANGED <<apart, config, epoch, batch, training, optim, sched, run_state,
                   model_pth, returned, outcome, history, steps>>

\* loss.backward(): adds this batch's gradients to .grad
Backward ==
    /\ pc = "backward"
    /\ grads' = [from |-> grads.from \cup {params}, clipped |-> FALSE]
    /\ ops' = Append(ops, "backward")
    /\ pc' = "clip"
    /\ UNCHANGED <<apart, config, epoch, batch, training, params, last_update, sched,
                   run_state, model_pth, returned, outcome, history, steps>>

\* torch.nn.utils.clip_grad_norm_(model.parameters(), clip_grad)
ClipGrad ==
    /\ pc = "clip"
    /\ grads' = [grads EXCEPT !.clipped = TRUE]
    /\ ops' = Append(ops, "clip")
    /\ pc' = "opt_step"
    /\ UNCHANGED <<apart, config, epoch, batch, training, params, last_update, sched,
                   run_state, model_pth, returned, outcome, history, steps>>

\* Variant: scheduler.step() inside the batch loop, after optimizer.step().
OptStepThenSchedStep ==
    /\ pc = "opt_step"
    /\ params' = params + 1
    /\ last_update' = grads
    /\ last_epoch' = last_epoch + 1
    /\ opt_lr' = CosineLr(num_epochs, last_epoch + 1)
    /\ ops' = Append(ops, "opt_step")
    /\ batch' = batch + 1
    /\ pc' = IF batch + 1 < n_train THEN "zero_grad" ELSE "train_ret"
    /\ steps' = IF batch + 1 < n_train THEN steps ELSE Append(steps, "sched")
    /\ UNCHANGED <<apart, config, epoch, training, grads, run_state, model_pth,
                   returned, outcome, history>>

\* optimizer.step(); total_loss += loss.item(); next batch or end of the loop
OptStep ==
    /\ pc = "opt_step"
    /\ params' = params + 1
    /\ last_update' = grads
    /\ ops' = Append(ops, "opt_step")
    /\ batch' = batch + 1
    /\ pc' = IF batch + 1 < n_train THEN "zero_grad" ELSE "sched_step"
    /\ UNCHANGED <<apart, config, epoch, training, grads, sched, run_state, model_pth,
                   returned, outcome, history, steps>>

\* Variant: scheduler.step() left out of train.
SchedStepMissing ==
    /\ pc = "sched_step"
    /\ pc' = "train_ret"
    /\ UNCHANGED <<apart, config, epoch, batch, training, optim, sched, run_state,
                   model_pth, returned, outcome, history, ops, steps>>

\* scheduler.step()  # Update the learning rate
SchedStep ==
    /\ pc = "sched_step"
    /\ last_epoch' = last_epoch + 1
    /\ opt_lr' = CosineLr(num_epochs, last_epoch + 1)
    /\ steps' = Append(steps, "sched")
    /\ pc' = "train_ret"
    /\ UNCHANGED <<apart, config, epoch, batch, training, optim, run_state, model_pth,
                   returned, outcome, history, ops>>

\* return total_loss / len(train_loader), then the call of validate():
\* model.eval(), torch.no_grad()
TrainReturn ==
    /\ pc = "train_ret"
    /\ n_train > 0
    /\ training' = FALSE
    /\ batch' = 0
    /\ steps' = Append(steps, "validate")
    /\ pc' = IF n_val > 0 THEN "val_forward" ELSE "val_ret"
    /\ UNCHANGED <<apart, config, epoch, optim, sched, run_state, model_pth, returned,
                   outcome, history, ops>>

\* Variant: train returns 0 for an empty loader and the epoch goes on.
TrainDivZeroReturnsZero ==
    /\ pc = "train_ret"
    /\ n_train = 0
    /\ training' = FALSE
    /\ batch' = 0
    /\ steps' = Append(steps, "validate")
    /\ pc' = IF n_val > 0 THEN "val_forward" ELSE "val_ret"
    /\ UNCHANGED <<apart, config, epoch, optim, sched, run_state, model_pth, returned,
                   outcome, history, ops>>

\* total_loss / len(train_loader) with an empty loader: ZeroDivisionError
TrainDivZero ==
    /\ pc = "train_ret"
    /\ n_train = 0
    /\ pc' = "failed"
    /\ outcome' = "FAILED"
    /\ UNCHANGED <<apart, config, epoch, batch, training, optim, sched, run_state,
                   model_pth, returned, history, ops, steps>>

\* Variant: train_loop catches the exception and returns best_val_loss.
TrainFailCaught ==
    /\ pc \in {"forward", "loss", "backward"}
    /\ pc' = "done"
    /\ outcome' = "FAILED"
    /\ returned' = <<best_val_loss>>
    /\ UNCHANGED <<apart, config, epoch, batch, training, optim, sched, run_state,
                   model_pth, history, ops, steps>>

\* The forward or backward pass raises: nothing in train or train_loop catches it.
TrainFail ==
    /\ pc \in {"forward", "loss", "backward"}
    /\ pc' = "failed"
    /\ outcome' = "FAILED"
    /\ UNCHANGED <<apart, config, epoch, batch, training, optim, sched, run_state,
                   model_pth, returned, history, ops, steps>>

-----------------------------------------------------------------------------
(* validate(): lines 45-61 *)

\* Variant: validate runs the optimizer on its batches.
ValForwardUpdates ==
    /\ pc = "val_forward"
    /\ params' = params + 1
    /\ batch' = batch + 1
    /\ pc' = IF batch + 1 < n_val THEN "val_forward" ELSE "val_ret"
    /\ UNCHANGED <<apart, config, epoch, training, grads, last_update, sched,
                   run_state, model_pth, returned, outcome, history, ops, steps>>

\* One batch of validate: forward, criterion, total_loss += loss.item()
ValForward ==
    /\ pc = "val_forward"
    /\ batch' = batch + 1
    /\ pc' = IF batch + 1 < n_val THEN "val_forward" ELSE "val_ret"
    /\ UNCHANGED <<apart, config, epoch, training, optim, sched, run_state, model_pth,
                   returned, outcome, history, ops, steps>>

\* The forward pass of validate raises.
ValFail ==
    /\ pc = "val_forward"
    /\ pc' = "failed"
    /\ outcome' = "FAILED"
    /\ UNCHANGED <<apart, config, epoch, batch, training, optim, sched, run_state,
                   model_pth, returned, history, ops, steps>>

\* return total_loss / len(val_loader); val_loss = validate(...)
ValReturn ==
    /\ pc = "val_ret"
    /\ n_val > 0
    /\ \E v \in LossValues :
          /\ val_loss' = v
          /\ val_hist' = Append(val_hist, v)
    /\ val_params' = Append(val_params, params)
    /\ pc' = "read_lr"
    /\ UNCHANGED <<apart, config, epoch, batch, training, optim, sched, best_val_loss,
                   patience_counter, lr, model_pth, returned, outcome, saved_at,
                   wandb_log, printed, ops, steps>>

\* total_loss / len(val_loader) with an empty loader: ZeroDivisionError
ValDivZero ==
    /\ pc = "val_ret"
    /\ n_val = 0
    /\ pc' = "failed"
    /\ outcome' = "FAILED"
    /\ UNCHANGED <<apart, config, epoch, batch, training, optim, sched, run_state,
                   model_pth, returned, history, ops, steps>>

-----------------------------------------------------------------------------
(* train_loop(): the body of the epoch loop, lines 147-176 *)

\* lr = optimizer.param_groups[0]["lr"]; print(... LR ...)
ReadLr ==
    /\ pc = "read_lr"
    /\ lr' = opt_lr
    /\ printed' = Append(printed, opt_lr)
    /\ steps' = Append(steps, "read_lr")
    /\ pc' = "compare"
    /\ UNCHANGED <<apart, config, epoch, batch, training, optim, sched, best_val_loss,
                   patience_counter, val_loss, model_pth, returned, outcome,
                   val_hist, val_params, saved_at, wandb_log, ops>>

\* The rest of the state at line 152-157, which no variant of the branch touches.
CompareFrame ==
    /\ pc' = "check_patience"
    /\ UNCHANGED <<apart, config, epoch, batch, training, optim, sched, val_loss, lr,
                   returned, outcome, val_hist, val_params, wandb_log, printed,
                   ops, steps>>

\* Variant: torch.save outside the if, so every epoch overwrites model.pth.
CompareSaveAlways ==
    /\ pc = "compare"
    /\ model_pth' = <<params>>
    /\ saved_at' = saved_at \cup {epoch + 1}
    /\ IF val_loss < best_val_loss
       THEN best_val_loss' = val_loss /\ patience_counter' = 0
       ELSE patience_counter' = patience_counter + 1 /\ UNCHANGED best_val_loss
    /\ CompareFrame

\* Variant: val_loss <= best_val_loss, so a tie counts as an improvement.
CompareTie ==
    /\ pc = "compare"
    /\ IF val_loss <= best_val_loss
       THEN /\ best_val_loss' = val_loss
            /\ model_pth' = <<params>>
            /\ saved_at' = saved_at \cup {epoch + 1}
            /\ patience_counter' = 0
       ELSE /\ patience_counter' = patience_counter + 1
            /\ UNCHANGED <<best_val_loss, model_pth, saved_at>>
    /\ CompareFrame

\* Variant: the counter is not reset on improvement.
CompareNoReset ==
    /\ pc = "compare"
    /\ IF val_loss < best_val_loss
       THEN /\ best_val_loss' = val_loss
            /\ model_pth' = <<params>>
            /\ saved_at' = saved_at \cup {epoch + 1}
            /\ UNCHANGED patience_counter
       ELSE /\ patience_counter' = patience_counter + 1
            /\ UNCHANGED <<best_val_loss, model_pth, saved_at>>
    /\ CompareFrame

\* Variant: best_val_loss = val_loss outside the if.
CompareTakeLatest ==
    /\ pc = "compare"
    /\ best_val_loss' = val_loss
    /\ IF val_loss < best_val_loss
       THEN /\ model_pth' = <<params>>
            /\ saved_at' = saved_at \cup {epoch + 1}
            /\ patience_counter' = 0
       ELSE /\ patience_counter' = patience_counter + 1
            /\ UNCHANGED <<model_pth, saved_at>>
    /\ CompareFrame

\* if val_loss < best_val_loss: ... else: patience_counter += 1
Compare ==
    /\ pc = "compare"
    /\ IF val_loss < best_val_loss
       THEN /\ best_val_loss' = val_loss
            /\ model_pth' = <<params>>
            /\ saved_at' = saved_at \cup {epoch + 1}
            /\ patience_counter' = 0
       ELSE /\ patience_counter' = patience_counter + 1
            /\ UNCHANGED <<best_val_loss, model_pth, saved_at>>
    /\ CompareFrame

\* Variant: patience_counter > patience, which tolerates one epoch more.
CheckPatienceStrict ==
    /\ pc = "check_patience"
    /\ IF patience_counter > patience
       THEN /\ pc' = "done"
            /\ returned' = <<best_val_loss>>
            /\ outcome' = "EARLY_STOP"
       ELSE /\ pc' = "log"
            /\ UNCHANGED <<returned, outcome>>
    /\ UNCHANGED <<apart, config, epoch, batch, training, optim, sched, run_state,
                   model_pth, history, ops, steps>>

\* if patience_counter >= patience: break, and return best_val_loss
CheckPatience ==
    /\ pc = "check_patience"
    /\ IF patience_counter >= patience
       THEN /\ pc' = "done"
            /\ returned' = <<best_val_loss>>
            /\ outcome' = "EARLY_STOP"
       ELSE /\ pc' = "log"
            /\ UNCHANGED <<returned, outcome>>
    /\ UNCHANGED <<apart, config, epoch, batch, training, optim, sched, run_state,
                   model_pth, history, ops, steps>>

\* Variant: wandb.log is called whatever log_wandb says.
LogIgnoresFlag ==
    /\ pc = "log"
    /\ wandb_log' = Append(wandb_log, [epoch |-> epoch + 1,
                                       val_loss |-> val_loss,
                                       best_val_loss |-> best_val_loss,
                                       learning_rate |-> lr])
    /\ epoch' = epoch + 1
    /\ pc' = "loop"
    /\ UNCHANGED <<apart, config, batch, training, optim, sched, run_state, model_pth,
                   returned, outcome, val_hist, val_params, saved_at, printed,
                   ops, steps>>

\* Variant: nothing is logged in the last epoch of the budget.
LogUnlessLast ==
    /\ pc = "log"
    /\ wandb_log' =
          IF log_wandb /\ epoch # num_epochs - 1
          THEN Append(wandb_log, [epoch |-> epoch + 1,
                                  val_loss |-> val_loss,
                                  best_val_loss |-> best_val_loss,
                                  learning_rate |-> lr])
          ELSE wandb_log
    /\ epoch' = epoch + 1
    /\ pc' = "loop"
    /\ UNCHANGED <<apart, config, batch, training, optim, sched, run_state, model_pth,
                   returned, outcome, val_hist, val_params, saved_at, printed,
                   ops, steps>>

\* if log_wandb: wandb.log({...}) else: print(...); then the next iteration
Log ==
    /\ pc = "log"
    /\ wandb_log' =
          IF log_wandb
          THEN Append(wandb_log, [epoch |-> epoch + 1,
                                  val_loss |-> val_loss,
                                  best_val_loss |-> best_val_loss,
                                  learning_rate |-> lr])
          ELSE wandb_log
    /\ epoch' = epoch + 1
    /\ pc' = "loop"
    /\ UNCHANGED <<apart, config, batch, training, optim, sched, run_state, model_pth,
                   returned, outcome, val_hist, val_params, saved_at, printed,
                   ops, steps>>

Next ==
    \/ LoopHead
    \/ ZeroGrad
    \/ Forward
    \/ Loss
    \/ Backward
    \/ ClipGrad
    \/ OptStep
    \/ SchedStep
    \/ TrainReturn
    \/ TrainDivZero
    \/ TrainFail
    \/ ValForward
    \/ ValFail
    \/ ValReturn
    \/ ValDivZero
    \/ ReadLr
    \/ Compare
    \/ CheckPatience
    \/ Log

Spec == Init /\ [][Next]_vars

-----------------------------------------------------------------------------
(* The loss average of train() and validate(): lines 21-41 and 47-61.       *)
(* total_loss and loss.item() are Python floats: binary floating point,     *)
(* every operation rounded to nearest, ties to even.  A float is            *)
(* mant * 2^exp; the model keeps Precision bits of significand.             *)

RECURSIVE Pow2(_)
Pow2(k) == IF k <= 0 THEN 1 ELSE 2 * Pow2(k - 1)

RECURSIVE BitLen(_)
BitLen(x) == IF x = 0 THEN 0 ELSE 1 + BitLen(x \div 2)

\* The float mant * 2^exp in its one normal form.
RECURSIVE Norm(_, _)
Norm(m, e) ==
    IF m = 0 THEN Zero
    ELSE IF m % 2 = 0 THEN Norm(m \div 2, e + 1)
    ELSE [mant |-> m, exp |-> e]

\* x (plus a nonzero fraction if sticky) rounded to Precision bits.
RoundBits(x, sticky) ==
    LET s == IF BitLen(x) > Precision THEN BitLen(x) - Precision ELSE 0
        q == x \div Pow2(s)
        r == x % Pow2(s)
        half == Pow2(s - 1)
        up == s > 0 /\ (r > half \/ (r = half /\ (sticky \/ q % 2 = 1)))
    IN [mant |-> IF up THEN q + 1 ELSE q, exp |-> s]

\* float + float
FAdd(a, b) ==
    LET e == IF a.exp < b.exp THEN a.exp ELSE b.exp
        x == a.mant * Pow2(a.exp - e) + b.mant * Pow2(b.exp - e)
        r == RoundBits(x, FALSE)
    IN Norm(r.mant, r.exp + e)

\* float / int, for n >= 1
FDivInt(a, n) ==
    LET k == Precision + BitLen(n) + 1
        x == a.mant * Pow2(k)
        r == RoundBits(x \div n, x % n # 0)
    IN Norm(r.mant, r.exp + a.exp - k)

\* The per-batch losses explored: small ones and ones 2^Precision times larger.
LossFloats == {Norm(k, e) : k \in 1..MaxLoss, e \in {0, Precision}}

SeqsUpTo(S, n) == UNION {[1..k -> S] : k \in 0..n}

\* The epoch loop is not running.
LoopIdle ==
    /\ num_epochs = 0
    /\ patience = 0
    /\ log_wandb = FALSE
    /\ n_train = 0
    /\ n_val = 0
    /\ LoopInit

\* total_loss = 0, before the first batch of a loader with the given losses.
MeanInit ==
    /\ LoopIdle
    /\ PartIdle
    /\ fn \in {"train", "validate"}
    /\ losses \in SeqsUpTo(LossFloats, MaxMeanBatches)
    /\ visited = 0
    /\ total_loss = Zero
    /\ mean_ret = NoValue
    /\ mean_pc = "iter"

\* Variant: total_loss = loss.item() in place of +=.
MeanAccumulateAssigns ==
    /\ mean_pc = "iter"
    /\ visited < Len(losses)
    /\ total_loss' = losses[visited + 1]
    /\ visited' = visited + 1
    /\ UNCHANGED <<loop_vars, part_vars, fn, losses, mean_ret, mean_pc>>

\* total_loss += loss.item()
MeanAccumulate ==
    /\ mean_pc = "iter"
    /\ visited < Len(losses)
    /\ total_loss' = FAdd(total_loss, losses[visited + 1])
    /\ visited' = visited + 1
    /\ UNCHANGED <<loop_vars, part_vars, fn, losses, mean_ret, mean_pc>>

\* return total_loss / len(loader)
MeanReturn ==
    /\ mean_pc = "iter"
    /\ visited = Len(losses)
    /\ Len(losses) > 0
    /\ mean_ret' = <<FDivInt(total_loss, Len(losses))>>
    /\ mean_pc' = "done"
    /\ UNCHANGED <<loop_vars, part_vars, fn, losses, visited, total_loss>>

\* total_loss / len(loader) with an empty loader: ZeroDivisionError
MeanDivZero ==
    /\ mean_pc = "iter"
    /\ visited = Len(losses)
    /\ Len(losses) = 0
    /\ mean_pc' = "failed"
    /\ UNCHANGED <<loop_vars, part_vars, fn, losses, visited, total_loss,
                   mean_ret>>

MeanNext ==
    \/ MeanAccumulate
    \/ MeanReturn
    \/ MeanDivZero

MeanSpec == MeanInit /\ [][MeanNext]_vars

-----------------------------------------------------------------------------
(* The split of df into train_df and val_df: lines 102-107. *)

Flags == [train : BOOLEAN, val : BOOLEAN, test : BOOLEAN]

\* Row i of d together with its position in d.
Tagged(d) ==
    [i \in 1..Len(d) |->
        [row |-> i, train |-> d[i].train, val |-> d[i].val, test |-> d[i].test]]

PartInit ==
    /\ LoopIdle
    /\ MeanIdle
    /\ df \in SeqsUpTo(Flags, MaxRows)
    /\ merge_train_val \in BOOLEAN
    /\ train_df = <<>>
    /\ val_df = <<>>
    /\ part_pc = "split"

\* Variant: the two branches of the if exchanged.
PartitionSwapped ==
    /\ part_pc = "split"
    /\ IF ~merge_train_val
       THEN /\ train_df' = SelectSeq(Tagged(df), LAMBDA r : r.train \/ r.val)
            /\ val_df' = SelectSeq(Tagged(df), LAMBDA r : r.test)
       ELSE /\ train_df' = SelectSeq(Tagged(df), LAMBDA r : r.train)
            /\ val_df' = SelectSeq(Tagged(df), LAMBDA r : r.val)
    /\ part_pc' = "done"
    /\ UNCHANGED <<loop_vars, mean_vars, df, merge_train_val>>

\* if merge_train_val: ... else: ...; df[mask].reset_index(drop=True)
Partition ==
    /\ part_pc = "split"
    /\ IF merge_train_val
       THEN /\ train_df' = SelectSeq(Tagged(df), LAMBDA r : r.train \/ r.val)
            /\ val_df' = SelectSeq(Tagged(df), LAMBDA r : r.test)
       ELSE /\ train_df' = SelectSeq(Tagged(df), LAMBDA r : r.train)
            /\ val_df' = SelectSeq(Tagged(df), LAMBDA r : r.val)
    /\ part_pc' = "done"
    /\ UNCHANGED <<loop_vars, mean_vars, df, merge_train_val>>

PartNext == Partition

PartitionSpec == PartInit /\ [][PartNext]_vars

\* The interpreter runs train_loop to its end: a statement that can execute does.
LiveSpec == Spec /\ WF_vars(Next)

-----------------------------------------------------------------------------
(* Properties *)

\* The first epoch whose val_loss equals best_val_loss (0 when there is none).
BestEpoch ==
    LET S == {e \in 1..Len(val_hist) : val_hist[e] = best_val_loss}
    IN IF S = {} THEN 0 ELSE CHOOSE e \in S : \A f \in S : e <= f

\* C1: once model.pth has been written it holds the parameters as they were
\* when validated in the epoch whose val_loss is the current best_val_loss,
\* which is the minimum of the val_losses compared so far; no update of the
\* parameters lies between that validation and the save, and later epochs
\* that do not improve leave the file alone.
C1_CheckpointIsBest ==
    model_pth # NoFile =>
        /\ BestEpoch \in 1..Compared
        /\ best_val_loss = BestOf(val_hist, Compared)
        /\ model_pth = <<val_params[BestEpoch]>>

\* A checkpoint of epoch 1 has survived two later epochs that trained on.
C1_Witness ==
    /\ pc = "done"
    /\ Len(val_hist) = 3
    /\ model_pth = <<val_params[1]>>
    /\ params > model_pth[1]

\* C2: an epoch writes model.pth iff its val_loss is strictly below the best
\* before it (infinity before the first epoch): the epochs that have written
\* are exactly the strict prefix minima of the val_loss sequence, a tie writes
\* nothing, and the file holds what the latest of them saved.
C2_SavedIffStrictlyBetter ==
    /\ saved_at = {e \in 1..Compared : Improved(val_hist, e)}
    /\ model_pth = NoFile <=> saved_at = {}
    /\ \A e \in saved_at :
          (\A f \in saved_at : f <= e) => model_pth = <<val_params[e]>>

\* epochs=3, val_losses rising after two improvements: saves after epochs 1, 2.
C2_Witness ==
    /\ pc = "done"
    /\ num_epochs = 3
    /\ val_hist = <<2, 1, 3>>
    /\ saved_at = {1, 2}
    /\ returned = <<1>>

\* C3 as stated: the counter is 0 after an improving epoch and one more after
\* any other, and the loop has terminated exactly when the counter has reached
\* patience: it never stops at an epoch that leaves the counter below patience.
C3_StopsOnlyAtPatience ==
    /\ patience_counter = SinceImproved(val_hist, Compared)
    /\ (pc = "done" /\ Len(val_hist) >= 1) => patience_counter >= patience

\* C3 as amended: the counter is 0 after an improving epoch and one more after
\* any other; the loop breaks at the end of an epoch exactly when the counter
\* is at least patience there; an epoch that leaves the counter below patience
\* is followed by the next epoch, or by the return once the budget is used up.
C3_CounterAndBreak ==
    /\ patience_counter = SinceImproved(val_hist, Compared)
    /\ outcome = "EARLY_STOP" =>
          pc = "done" /\ Compared >= 1 /\ patience_counter >= patience
    /\ (Compared >= 1 /\ pc # "check_patience" /\ outcome # "EARLY_STOP") =>
          patience_counter < patience
    /\ outcome = "BUDGET_EXHAUSTED" => pc = "done" /\ epoch = num_epochs

\* The budget ends the loop while the counter, not 0, is still below patience.
C3_Witness ==
    /\ outcome = "BUDGET_EXHAUSTED"
    /\ Len(val_hist) = 2
    /\ patience_counter = 1
    /\ patience = 2

\* C4: best_val_loss is the minimum of the val_losses compared so far (so it
\* never increases), train_loop returns the minimum over all executed epochs,
\* and with a budget of 0 no epoch runs and infinity is returned.
C4_BestIsMinimum ==
    /\ best_val_loss = BestOf(val_hist, Compared)
    /\ pc = "done" <=> returned # NoValue
    /\ pc = "done" => returned = <<BestOf(val_hist, Len(val_hist))>>
    /\ num_epochs = 0 => val_hist = <<>> /\ params = 0 /\ pc \in {"loop", "done"}
    /\ (num_epochs = 0 /\ pc = "done") => returned = <<Inf>>

\* The value returned is that of the second of three epochs, not of the last.
C4_Witness ==
    /\ pc = "done"
    /\ Len(val_hist) = 3
    /\ val_hist[2] < val_hist[1]
    /\ val_hist[2] < val_hist[3]
    /\ returned = <<val_hist[2]>>

\* C5: the run stops at the end of the first epoch that completes `patience`
\* consecutive epochs without improvement, whatever budget is left: no epoch
\* is trained or validated after it, and the best val_loss up to it is returned.
C5_StopsAtFirstStreak ==
    /\ \A n \in 1..(Len(val_hist) - 1) : ~Streak(val_hist, n, patience)
    /\ (/\ Len(val_hist) >= 1
        /\ Streak(val_hist, Len(val_hist), patience)
        /\ pc \notin {"read_lr", "compare", "check_patience"})
          => outcome = "EARLY_STOP"
    /\ outcome = "EARLY_STOP" =>
          /\ pc = "done"
          /\ Streak(val_hist, Len(val_hist), patience)
          /\ Len(val_hist) = epoch + 1
          /\ params = val_params[Len(val_params)]
          /\ returned = <<BestOf(val_hist, Len(val_hist))>>

\* patience=2 and val_losses 1, 2, 3: three epochs run of a budget of four.
C5_Witness ==
    /\ outcome = "EARLY_STOP"
    /\ num_epochs = 4
    /\ patience = 2
    /\ val_hist = <<1, 2, 3>>
    /\ returned = <<1>>

\* C6 as stated: in every epoch the steps are Epoch Trainer, Epoch Validator,
\* read the learning rate, advance the scheduler: the rate printed and logged
\* for an epoch is the one in force before that epoch's scheduler step.
C6_LrReadBeforeSchedStep ==
    /\ IsPrefix(steps, <<"train", "validate", "read_lr", "sched">>)
    /\ \A e \in 1..Len(printed) : printed[e] = CosineLr(num_epochs, e - 1)
    /\ \A i \in 1..Len(wandb_log) :
          wandb_log[i].learning_rate = CosineLr(num_epochs, wandb_log[i].epoch - 1)

\* C6 as amended: in every epoch the steps are the batches of the Epoch
\* Trainer, the scheduler step (the last statement of train), the Epoch
\* Validator, the read of the learning rate: the rate printed and logged for
\* an epoch is the one the scheduler set at the end of that epoch's training.
C6_LrReadAfterSchedStep ==
    /\ IsPrefix(steps, <<"train", "sched", "validate", "read_lr">>)
    /\ pc \in ValPcs \cup BodyPcs => last_epoch = epoch + 1
    /\ pc \in {"compare", "check_patience", "log"} => lr = opt_lr
    /\ \A e \in 1..Len(printed) : printed[e] = CosineLr(num_epochs, e)
    /\ \A i \in 1..Len(wandb_log) :
          wandb_log[i].learning_rate = CosineLr(num_epochs, wandb_log[i].epoch)

\* The record of the first of two epochs carries the rate after one step.
C6_Witness ==
    /\ num_epochs = 2
    /\ Len(wandb_log) >= 1
    /\ wandb_log[1].epoch = 1
    /\ wandb_log[1].learning_rate = 500
    /\ printed[1] = 500

\* C7: the scheduler is stepped once per executed epoch, after all of the
\* epoch's optimizer updates and never per batch: after k epochs it has
\* been stepped k times, whatever the number of batches.
C7_SchedulerOncePerEpoch ==
    /\ pc \in TrainPcs \cup {"sched_step", "loop"} => last_epoch = epoch
    /\ pc \in {"train_ret"} \cup ValPcs \cup BodyPcs => last_epoch = epoch + 1
    /\ pc = "done" => last_epoch = Len(val_hist)
    /\ last_epoch \in {Len(val_hist), Len(val_hist) + 1}
    /\ last_epoch * n_train <= params
    /\ params <= (last_epoch + 1) * n_train

\* Two epochs of two batches each: four updates, two scheduler steps.
C7_Witness ==
    /\ pc = "loop"
    /\ epoch = 2
    /\ n_train = 2
    /\ params = 4
    /\ last_epoch = 2

Protocol == <<"zero_grad", "forward", "loss", "backward", "clip", "opt_step">>

\* C8: on every batch train resets the gradients, runs the forward pass,
\* computes the loss, runs the backward pass, clips the gradients and then
\* updates: every update applies the clipped gradients of its own batch alone
\* and there is exactly one update per batch.
C8_BatchProtocol ==
    /\ IsPrefix(ops, Protocol)
    /\ pc = "zero_grad" => ops \in {<<>>, Protocol}
    /\ pc \in TrainPcs \ {"zero_grad"} =>
          Len(ops) < Len(Protocol) /\ Protocol[Len(ops) + 1] = pc
    /\ pc = "clip" => grads = [from |-> {params}, clipped |-> FALSE]
    /\ pc = "opt_step" => grads = [from |-> {params}, clipped |-> TRUE]
    /\ params > 0 => last_update = [from |-> {params - 1}, clipped |-> TRUE]
    /\ pc \in TrainPcs \cup {"sched_step"} => params = epoch * n_train + batch
    /\ pc \in {"train_ret"} \cup ValPcs \cup BodyPcs =>
          params = (epoch + 1) * n_train
    /\ pc = "loop" => params = epoch * n_train

\* The second batch of the second epoch is about to be applied.
C8_Witness ==
    /\ pc = "opt_step"
    /\ epoch = 1
    /\ batch = 1
    /\ params = 3
    /\ grads = [from |-> {3}, clipped |-> TRUE]

\* C9: a step of validate leaves the parameters, the gradients, the optimizer
\* and the scheduler as they are, and the parameters change nowhere but in
\* the optimizer update of train.
C9_ValidateFrame ==
    [][/\ pc \in ValPcs =>
             UNCHANGED <<params, grads, last_update, last_epoch, opt_lr>>
       /\ params' # params => pc = "opt_step"]_vars

\* validate has returned for the second time.
C9_Witness ==
    /\ pc = "read_lr"
    /\ epoch = 1
    /\ n_val = 1
    /\ Len(val_params) = 2
    /\ val_params[2] = params

\* The epochs for which wandb.log has been called.
LoggedEpochs == {wandb_log[i].epoch : i \in 1..Len(wandb_log)}

\* C10 as stated: with logging enabled an epoch emits one record iff it goes
\* on to CONTINUE: the epoch that stops early and the last epoch of the budget
\* emit none.
C10_LoggedIffContinue ==
    log_wandb =>
        /\ Len(wandb_log) = Cardinality(LoggedEpochs)
        /\ LoggedEpochs = {e \in 1..epoch : e < num_epochs}

\* C10 as amended: with logging enabled an epoch emits one record iff it
\* does not stop early: the epoch that triggers EARLY_STOP emits none, the
\* last epoch of the budget emits its record before the loop ends.
C10_LoggedUnlessEarlyStop ==
    log_wandb =>
        /\ Len(wandb_log) = epoch
        /\ \A i \in 1..Len(wandb_log) :
              wandb_log[i] = [epoch |-> i,
                              val_loss |-> val_hist[i],
                              best_val_loss |-> BestOf(val_hist, i),
                              learning_rate |-> printed[i]]
        /\ outcome = "EARLY_STOP" => Len(wandb_log) = Len(val_hist) - 1
        /\ outcome = "BUDGET_EXHAUSTED" => Len(wandb_log) = num_epochs

\* The second and last epoch of the budget has emitted its record.
C10_Witness ==
    /\ log_wandb
    /\ outcome = "BUDGET_EXHAUSTED"
    /\ num_epochs = 2
    /\ Len(wandb_log) = 2
    /\ wandb_log[2].epoch = 2

\* The number of epochs a run with budget n and patience p executes on the
\* val_loss sequence h: up to the first epoch that completes a streak, at most n.
RunLength(h, n, p) ==
    LET S == {k \in 1..n : k <= Len(h) /\ Streak(h, k, p)}
    IN IF S = {} THEN n ELSE CHOOSE k \in S : \A j \in S : k <= j

\* C11: with log_wandb=False wandb.log is never called, and the flag changes
\* nothing else: the number of epochs executed, the epochs that write a
\* checkpoint and the value returned are functions of the val_loss sequence,
\* the budget and the patience alone.
C11_LoggingOffChangesNothing ==
    /\ ~log_wandb => wandb_log = <<>>
    /\ pc = "done" =>
          /\ Len(val_hist) = RunLength(val_hist, num_epochs, patience)
          /\ saved_at = {e \in 1..Len(val_hist) : Improved(val_hist, e)}
          /\ returned = <<BestOf(val_hist, Len(val_hist))>>

\* A run without logging has used up a budget of three epochs.
C11_Witness ==
    /\ ~log_wandb
    /\ outcome = "BUDGET_EXHAUSTED"
    /\ num_epochs = 3
    /\ Len(val_hist) = 3
    /\ saved_at = {1, 3}
    /\ wandb_log = <<>>

\* C12: unless train or validate raises, train_loop terminates, after at most
\* num_epochs epochs, in exactly one of EARLY_STOP (counter >= patience) and
\* BUDGET_EXHAUSTED (all num_epochs epochs ran and none stopped early); when
\* the counter reaches patience in the last epoch of the budget the outcome is
\* EARLY_STOP; nothing runs after a terminal state.
C12_Terminates ==
    /\ [](/\ Len(val_hist) <= num_epochs
          /\ pc = "done" <=> outcome \in {"EARLY_STOP", "BUDGET_EXHAUSTED"}
          /\ outcome = "EARLY_STOP" =>
                Len(val_hist) >= 1 /\ patience_counter >= patience
          /\ outcome = "BUDGET_EXHAUSTED" =>
                /\ Len(val_hist) = num_epochs
                /\ num_epochs >= 1 => patience_counter < patience
          /\ pc \in {"done", "failed"} => ~ENABLED Next)
    /\ <>(pc = "done" \/ outcome = "FAILED")

\* The counter reaches patience in the last epoch of the budget.
C12_Witness ==
    /\ outcome = "EARLY_STOP"
    /\ num_epochs = 3
    /\ Len(val_hist) = 3
    /\ patience = 2
    /\ patience_counter = 2

\* C13: a failure of train or validate in epoch k is not caught: the run ends
\* without a return value, epoch k writes no checkpoint and emits no record,
\* no later epoch runs, and model.pth stays the checkpoint of the best epoch
\* before k (no file if no epoch before k improved).
C13_FailureAborts ==
    outcome = "FAILED" =>
        /\ pc = "failed"
        /\ returned = NoValue
        /\ ~ENABLED Next
        /\ Len(val_hist) = epoch
        /\ (epoch + 1) \notin saved_at \cup LoggedEpochs
        /\ saved_at = {e \in 1..epoch : Improved(val_hist, e)}
        /\ best_val_loss = BestOf(val_hist, epoch)
        /\ IF saved_at = {}
           THEN model_pth = NoFile
           ELSE /\ BestEpoch \in saved_at
                /\ model_pth = <<val_params[BestEpoch]>>

\* The third epoch raises with both loaders non-empty; epoch 1 was the best.
C13_Witness ==
    /\ outcome = "FAILED"
    /\ n_train > 0
    /\ n_val > 0
    /\ epoch = 2
    /\ saved_at = {1}
    /\ model_pth = <<val_params[1]>>
    /\ params > val_params[2]

\* The last epoch compared that improved (0 when there is none).
LastImproved ==
    LET S == {e \in 1..Compared : Improved(val_hist, e)}
    IN IF S = {} THEN 0 ELSE CHOOSE e \in S : \A f \in S : f <= e

\* C17: for patience >= 1 the counter stays within 0..patience, equals the
\* number of epochs compared since the last one that improved, and is below
\* patience whenever an epoch is about to train, trains or is validated.
C17_CounterInvariant ==
    patience >= 1 =>
        /\ patience_counter \in 0..patience
        /\ patience_counter = Compared - LastImproved
        /\ pc \in {"loop", "sched_step", "train_ret"} \cup TrainPcs \cup ValPcs =>
              patience_counter < patience

\* The third epoch starts to train after one epoch without improvement.
C17_Witness ==
    /\ patience = 2
    /\ pc = "zero_grad"
    /\ epoch = 2
    /\ batch = 0
    /\ patience_counter = 1
    /\ LastImproved = 1

\* C18: with patience <= 0 and a budget of at least one epoch, exactly one
\* epoch is executed and the loop breaks at its end, also when that epoch
\* improved and reset the counter to 0: the checkpoint of that epoch is written
\* before the break, nothing is logged and the epoch's val_loss is returned.
C18_NonPositivePatience ==
    (patience <= 0 /\ num_epochs >= 1) =>
        /\ epoch = 0
        /\ Len(val_hist) <= 1
        /\ pc # "log"
        /\ wandb_log = <<>>
        /\ outcome # "BUDGET_EXHAUSTED"
        /\ (pc \in {"check_patience", "done"} /\ Improved(val_hist, 1)) =>
              /\ patience_counter = 0
              /\ saved_at = {1}
              /\ model_pth = <<val_params[1]>>
        /\ pc = "done" =>
              /\ outcome = "EARLY_STOP"
              /\ Len(val_hist) = 1
              /\ params = n_train
              /\ returned = <<val_hist[1]>>

\* patience=0, budget 3: the first epoch improved, saved, and the run stopped.
C18_Witness ==
    /\ patience = 0
    /\ num_epochs = 3
    /\ log_wandb
    /\ pc = "done"
    /\ patience_counter = 0
    /\ saved_at = {1}
    /\ returned = <<2>>

\* C19: with an empty training loader train raises ZeroDivisionError instead
\* of returning, after scheduler.step() has run once; with an empty validation
\* loader validate raises likewise; in both cases the failing epoch is the
\* first, no checkpoint is written and best_val_loss stays infinity.
C19_EmptyLoaderRaises ==
    /\ (n_train = 0 \/ n_val = 0) =>
          /\ epoch = 0
          /\ val_hist = <<>>
          /\ model_pth = NoFile
          /\ best_val_loss = Inf
          /\ pc \notin BodyPcs
          /\ pc = "done" => num_epochs = 0
    /\ n_train = 0 =>
          /\ pc \notin TrainPcs \cup ValPcs
          /\ params = 0
          /\ pc = "failed" =>
                /\ steps = <<"train", "sched">>
                /\ last_epoch = 1
                /\ opt_lr = CosineLr(num_epochs, 1)
    /\ (n_train > 0 /\ n_val = 0 /\ pc \in {"val_ret", "failed"}) =>
          \/ steps = <<"train">> /\ params < n_train /\ last_epoch = 0
          \/ /\ steps = <<"train", "sched", "validate">>
             /\ params = n_train
             /\ last_epoch = 1

\* train has raised on an empty loader with the learning rate already lowered.
C19_Witness ==
    /\ n_train = 0
    /\ num_epochs = 2
    /\ pc = "failed"
    /\ last_epoch = 1
    /\ opt_lr = 500

\* total_loss after the first n losses of s: 0 + s[1] + ... + s[n], left to right.
RECURSIVE FoldSum(_, _)
FoldSum(s, n) == IF n = 0 THEN Zero ELSE FAdd(FoldSum(s, n - 1), s[n])

\* What train / validate returns on the losses s.
MeanOf(s) == FDivInt(FoldSum(s, Len(s)), Len(s))

\* The sum of s in exact arithmetic (all exponents of s are >= 0).
RECURSIVE ExactSum(_, _)
ExactSum(s, n) ==
    IF n = 0 THEN 0 ELSE ExactSum(s, n - 1) + s[n].mant * Pow2(s[n].exp)

\* No addition of the left-to-right sum of s rounds.
NoRounding(s) ==
    \A n \in 0..Len(s) : FoldSum(s, n) = Norm(ExactSum(s, n), 0)

\* The visiting orders of the batches of s.
Orders(s) ==
    {[i \in 1..Len(s) |-> s[f[i]]] :
        f \in {g \in [1..Len(s) -> 1..Len(s)] :
                  \A i, j \in 1..Len(s) : g[i] = g[j] => i = j}}

\* C14 as stated: for N >= 1 batches train and validate return the sum of the
\* per-batch losses divided by N, and the result depends only on the multiset
\* of the losses, not on the order in which the batches are visited.
C14_MeanOrderIndependent ==
    mean_pc = "done" =>
        /\ Len(losses) >= 1
        /\ \A q \in Orders(losses) : mean_ret = <<MeanOf(q)>>

\* C14 as amended: for N >= 1 batches train and validate return the float sum
\* of the per-batch losses, accumulated in visiting order, divided by N; the
\* result is the same for every order of the same losses when N <= 2 and
\* when no addition rounds, in which case it is the rounded exact mean.
C14_MeanOfFloatSum ==
    /\ total_loss = FoldSum(losses, visited)
    /\ mean_pc = "failed" => Len(losses) = 0 /\ mean_ret = NoValue
    /\ mean_pc = "done" =>
          /\ Len(losses) >= 1
          /\ visited = Len(losses)
          /\ mean_ret = <<MeanOf(losses)>>
          /\ NoRounding(losses) =>
                mean_ret = <<FDivInt(Norm(ExactSum(losses, Len(losses)), 0),
                                     Len(losses))>>
          /\ \A q \in Orders(losses) :
                (Len(losses) <= 2 \/ (NoRounding(losses) /\ NoRounding(q)))
                    => mean_ret = <<MeanOf(q)>>

\* validate has averaged three losses of which the last absorbs the others'
\* sum only in this order.
C14_Witness ==
    /\ fn = "validate"
    /\ mean_pc = "done"
    /\ losses = <<Norm(1, 0), Norm(1, 0), Norm(1, Precision)>>
    /\ ~NoRounding(<<Norm(1, Precision), Norm(1, 0), Norm(1, 0)>>)
    /\ mean_ret # <<MeanOf(<<Norm(1, Precision), Norm(1, 0), Norm(1, 0)>>)>>

\* The rows of df held by s.
Rows(s) == {s[i].row : i \in 1..Len(s)}

\* s holds each of its rows once, in the order of df, with the flags of df.
Extract(s) ==
    /\ \A i, j \in 1..Len(s) : i < j => s[i].row < s[j].row
    /\ \A i \in 1..Len(s) :
          /\ s[i].row \in 1..Len(df)
          /\ s[i] = Tagged(df)[s[i].row]

\* C15: with merge_train_val=True the training set is exactly the rows whose
\* train or val flag is true and the validation set exactly the rows whose
\* test flag is true; with merge_train_val=False they are exactly the rows
\* with train true and exactly the rows with val true.
C15_Partition ==
    part_pc = "done" =>
        /\ Extract(train_df)
        /\ Extract(val_df)
        /\ merge_train_val =>
              /\ Rows(train_df) = {i \in 1..Len(df) : df[i].train \/ df[i].val}
              /\ Rows(val_df) = {i \in 1..Len(df) : df[i].test}
        /\ ~merge_train_val =>
              /\ Rows(train_df) = {i \in 1..Len(df) : df[i].train}
              /\ Rows(val_df) = {i \in 1..Len(df) : df[i].val}

\* Merged: a val-only row trains, a row with test and val is in both sets.
C15_Witness ==
    /\ part_pc = "done"
    /\ merge_train_val
    /\ df = <<[train |-> FALSE, val |-> TRUE, test |-> FALSE],
              [train |-> FALSE, val |-> TRUE, test |-> TRUE]>>
    /\ Rows(train_df) = {1, 2}
    /\ Rows(val_df) = {2}

====
